---- MODULE Spec2Model ----
(***************************************************************************)
(* A model of dnsquest's iterative resolver (dnsquest/resolver.py).        *)
(*                                                                         *)
(* DNSQuestResolver.resolve normalises the domain text, parses it and      *)
(* calls _iterative_resolve over ROOT_SERVERS.  _iterative_resolve is      *)
(* recursive; the model keeps its call stack explicitly, one frame per     *)
(* activation, and moves one query, one call or one return at a time.      *)
(* The remote servers are the environment: what a server replies to a      *)
(* query name is chosen when the query is first sent and remembered, so    *)
(* that every server is deterministic within one behaviour.                *)
(***************************************************************************)
EXTENDS Integers, Sequences, FiniteSets, TLC

VARIABLES
    scenario,    \* the kind of server fixture of this behaviour
    domain,      \* the text handed to resolve()
    run,         \* 1 during the first call of resolve(), 2 during the second
    phase,       \* "idle", "running" or "done"
    stack,       \* activations of _iterative_resolve, innermost last
    ret,         \* what the activation that just ended returned or raised
    result,      \* the outcome of resolve()
    rootStatus,  \* per root server: does it respond, time out or fail
    fixture,     \* (zone, name) -> the reply fixed so far
    sent,        \* history: every query sent by this call, with its reply
    history,     \* history: what happened to the NS names of referrals
    overflowed,  \* history: a call was refused by the recursion limit
    first        \* history: result and queries of the first call

vars == <<scenario, domain, run, phase, stack, ret, result, rootStatus, fixture,
          sent, history, overflowed, first>>

----------------------------------------------------------------------------
(* Bounds of the model *)

\* deepest stack of _iterative_resolve activations the interpreter allows
RecursionLimit == 4

\* how many root servers respond in the fixtures that are not about transport
UpRoots == 2

(* Program constants *)

\* len(ROOT_SERVERS)
NumRoots == 13

ROOT_SERVERS == [i \in 1..NumRoots |-> i]

\* the two servers a referral can delegate to
S1 == NumRoots + 1
S2 == NumRoots + 2

----------------------------------------------------------------------------
(* Domain texts and names.  A text is a sequence of characters; a name is  *)
(* the sequence of its labels, the empty root label last.                  *)

RECURSIVE Split(_, _, _)
Split(text, cur, acc) ==
    IF text = <<>> THEN Append(acc, cur)
    ELSE IF Head(text) = "."
         THEN Split(Tail(text), <<>>, Append(acc, cur))
         ELSE Split(Tail(text), Append(cur, Head(text)), acc)

\* a variant that appends the dot without looking at the end of the text
NormalizeAlways(text) == text \o <<".">>

\* resolve(): if not domain.endswith("."): domain += "."
Normalize(text) ==
    IF Len(text) > 0 /\ text[Len(text)] = "." THEN text ELSE text \o <<".">>

\* what from_text gives for a text with an empty label inside (it raises
\* dns.name.EmptyLabel)
BadName == <<>>

\* dns.name.from_text(text), origin = the root: a text that does not end
\* with a dot is completed with the root label
FromText(text) ==
    LET labels == Split(text, <<>>, <<>>)
    IN  IF text = <<>> \/ text = <<".">> THEN << <<>> >>
        ELSE IF \E k \in 1..(Len(labels) - 1) : labels[k] = <<>> THEN BadName
        ELSE IF labels[Len(labels)] = <<>> THEN labels
        ELSE Append(labels, <<>>)

\* str(name) of an absolute name: every label but the root followed by a dot
RECURSIVE ToText(_)
ToText(name) ==
    IF Len(name) <= 1 THEN <<>>
    ELSE Head(name) \o <<".">> \o ToText(Tail(name))

DomainTexts ==
    { <<"a">>, <<"a", ".">>, <<"a", ".", "b">>, <<"a", ".", "b", ".">> }

NameA  == FromText(<<"a", ".">>)
NameAB == FromText(<<"a", ".", "b", ".">>)
NameB  == FromText(<<"b", ".">>)
Names  == {NameA, NameAB, NameB}

----------------------------------------------------------------------------
(* Responses: a status code and three sections, each a sequence of record  *)
(* sets.                                                                   *)

RRset(rdtype, ttl, rdata) == [rdtype |-> rdtype, ttl |-> ttl, rdata |-> rdata]

Response(rcode, answer, additional, authority) ==
    [rcode |-> rcode, answer |-> answer, additional |-> additional,
     authority |-> authority]

NoResponse == Response("NONE", <<>>, <<>>, <<>>)

\* what dns.query.udp does: return a response, raise dns.exception.Timeout,
\* or raise another exception
Responded(r) == [status |-> "response", response |-> r]
TimedOut     == [status |-> "timeout",  response |-> NoResponse]
Failed       == [status |-> "error",    response |-> NoResponse]
Unset        == [status |-> "unset",    response |-> NoResponse]

----------------------------------------------------------------------------
(* Activations of _iterative_resolve, and what one of them hands back.     *)

NewFrame(qname, qtype, nameservers) ==
    [qname |-> qname, qtype |-> qtype, nameservers |-> nameservers,
     i |-> 1, successful_responses |-> 0, last_timeout_error |-> 0,
     pc |-> "for", ns_names |-> <<>>, j |-> 1, next_servers |-> <<>>,
     \* history: what each nameserver tried so far gave, and what the
     \* resolution of each NS name of the current referral gave
     seen |-> <<>>, ns_results |-> <<>>]

NoValue      == [kind |-> "none",   response |-> NoResponse, exc |-> "none"]
Returned(r)  == [kind |-> "return", response |-> r,          exc |-> "none"]
Raised(e)    == [kind |-> "raise",  response |-> NoResponse, exc |-> e]

Top == stack[Len(stack)]
Front(s) == SubSeq(s, 1, Len(s) - 1)
SetTop(f) == [stack EXCEPT ![Len(stack)] = f]

\* "continue": the for loop moves to the next nameserver
NextServer(f) == [f EXCEPT !.i = @ + 1, !.pc = "for"]

----------------------------------------------------------------------------
(* Exception classes.  NXDomainError, TimeoutError and NoRecordError are   *)
(* the resolver's own; Timeout is dns.exception.Timeout, TransportError    *)
(* any other exception dns.query.udp raises, RecursionError what the       *)
(* interpreter raises when a call would exceed its recursion limit.        *)

Parent(cls) ==
    CASE cls = "NXDomainError"      -> "DNSResolutionError"
      [] cls = "TimeoutError"       -> "DNSResolutionError"
      [] cls = "NoRecordError"      -> "DNSResolutionError"
      [] cls = "DNSResolutionError" -> "Exception"
      [] cls = "Timeout"            -> "Exception"
      [] cls = "TransportError"     -> "Exception"
      [] cls = "RecursionError"     -> "Exception"
      [] OTHER                      -> "none"

\* isinstance(e, cls) for an exception e of class exc
RECURSIVE IsA(_, _)
IsA(exc, cls) ==
    IF exc = "none" THEN FALSE
    ELSE IF exc = cls THEN TRUE
    ELSE IsA(Parent(exc), cls)

----------------------------------------------------------------------------
(* How _iterative_resolve reads one response (lines 86-153).               *)

Decide(op) ==
    [op |-> op, exc |-> "none", target |-> <<>>, servers |-> <<>>,
     names |-> <<>>]

\* a variant that takes a CNAME record set for the answer instead of chasing it
AnswerScanNoChase(answer, qtype) ==
    IF answer = <<>> THEN Decide("fall") ELSE Decide("return")

\* for rrset in response.answer: the first record set that is a CNAME is
\* chased, the first of the requested type ends the resolution
RECURSIVE AnswerScan(_, _)
AnswerScan(answer, qtype) ==
    IF answer = <<>> THEN Decide("fall")
    ELSE IF Head(answer).rdtype = "CNAME"
         THEN [Decide("cname") EXCEPT !.target = Head(answer).rdata[1]]
    ELSE IF Head(answer).rdtype = qtype THEN Decide("return")
    ELSE AnswerScan(Tail(answer), qtype)

\* the addresses of the A record sets of a section, in order
RECURSIVE Addresses(_)
Addresses(section) ==
    IF section = <<>> THEN <<>>
    ELSE IF Head(section).rdtype = "A"
         THEN Head(section).rdata \o Addresses(Tail(section))
         ELSE Addresses(Tail(section))

\* a variant that never looks at SOA record sets
RECURSIVE AuthorityScanIgnoresSoa(_, _, _, _)
AuthorityScanIgnoresSoa(authority, qtype, ns_records_found, ns_names) ==
    IF authority = <<>> THEN [Decide("ns") EXCEPT !.names = ns_names]
    ELSE LET rrset == Head(authority) IN
         IF rrset.rdtype = "NS"
         THEN AuthorityScanIgnoresSoa(Tail(authority), qtype, TRUE,
                  ns_names \o [k \in 1..Len(rrset.rdata) |-> ToText(rrset.rdata[k])])
         ELSE AuthorityScanIgnoresSoa(Tail(authority), qtype, ns_records_found, ns_names)

\* for rrset in response.authority: NS targets are collected as texts; an
\* SOA met before any NS record set raises NoRecordError for an A query
RECURSIVE AuthorityScan(_, _, _, _)
AuthorityScan(authority, qtype, ns_records_found, ns_names) ==
    IF authority = <<>> THEN [Decide("ns") EXCEPT !.names = ns_names]
    ELSE LET rrset == Head(authority) IN
         IF rrset.rdtype = "NS"
         THEN AuthorityScan(Tail(authority), qtype, TRUE,
                  ns_names \o [k \in 1..Len(rrset.rdata) |-> ToText(rrset.rdata[k])])
         ELSE IF rrset.rdtype = "SOA" /\ ~ns_records_found /\ qtype = "A"
         THEN [Decide("raise") EXCEPT !.exc = "NoRecordError"]
         ELSE AuthorityScan(Tail(authority), qtype, ns_records_found, ns_names)

\* a variant that looks at the answer section before the status code
ClassifyAnswerFirst(response, qtype) ==
    LET a == AnswerScan(response.answer, qtype) IN
    IF a.op # "fall" THEN a
    ELSE IF response.rcode = "NXDOMAIN"
    THEN [Decide("raise") EXCEPT !.exc = "NXDomainError"]
    ELSE LET glue == Addresses(response.additional) IN
         IF glue # <<>> THEN [Decide("glue") EXCEPT !.servers = glue]
         ELSE LET au == AuthorityScan(response.authority, qtype, FALSE, <<>>) IN
              IF au.op = "raise" THEN au
              ELSE IF au.names # <<>> THEN au
              ELSE Decide("next")

\* a variant that follows the additional section without looking whether
\* it gave any address
ClassifyGlueUnchecked(response, qtype) ==
    IF response.rcode = "NXDOMAIN"
    THEN [Decide("raise") EXCEPT !.exc = "NXDomainError"]
    ELSE LET a == AnswerScan(response.answer, qtype) IN
         IF a.op # "fall" THEN a
         ELSE IF response.additional # <<>>
              THEN [Decide("glue") EXCEPT !.servers = Addresses(response.additional)]
              ELSE LET au == AuthorityScan(response.authority, qtype, FALSE, <<>>) IN
                   IF au.op = "raise" THEN au
                   ELSE IF au.names # <<>> THEN au
                   ELSE Decide("next")

\* lines 86-153: the status code, then the answer, additional and authority
\* sections
Classify(response, qtype) ==
    IF response.rcode = "NXDOMAIN"
    THEN [Decide("raise") EXCEPT !.exc = "NXDomainError"]
    ELSE LET a == AnswerScan(response.answer, qtype) IN
         IF a.op # "fall" THEN a
         ELSE LET glue == Addresses(response.additional) IN
              IF glue # <<>> THEN [Decide("glue") EXCEPT !.servers = glue]
              ELSE LET au == AuthorityScan(response.authority, qtype, FALSE, <<>>) IN
                   IF au.op = "raise" THEN au
                   ELSE IF au.names # <<>> THEN au
                   ELSE Decide("next")

----------------------------------------------------------------------------
(* The server fixture.  The root servers are replicas of one zone; each is *)
(* up, timing out or failing for the whole behaviour.  S1 and S2 answer    *)
(* each name on their own.                                                 *)

IsRoot(ns) == ns \in 1..NumRoots
Zone(ns) == IF IsRoot(ns) THEN 0 ELSE ns
Zones == {0, S1, S2}

\* the first k roots behave one way, the others another way
RootPatterns ==
    { [i \in 1..NumRoots |-> IF i <= k THEN d1 ELSE d2] :
        k \in 0..NumRoots, d1 \in {"timeout", "error"}, d2 \in {"up", "timeout", "error"} }

AnswerA(addr, ttl) ==
    Response("NOERROR", <<RRset("A", ttl, <<addr>>)>>, <<>>, <<>>)
AnswerCNAME(target) ==
    Response("NOERROR", <<RRset("CNAME", 300, <<target>>)>>, <<>>, <<>>)
\* an answer section with a CNAME record set and an A record set, either way
AnswerCnameThenA(target, addr) ==
    Response("NOERROR",
             <<RRset("CNAME", 300, <<target>>), RRset("A", 300, <<addr>>)>>,
             <<>>, <<>>)
AnswerAThenCname(target, addr) ==
    Response("NOERROR",
             <<RRset("A", 300, <<addr>>), RRset("CNAME", 300, <<target>>)>>,
             <<>>, <<>>)
GlueRRsets(addrs) == [k \in 1..Len(addrs) |-> RRset("A", 300, <<addrs[k]>>)]
Referral(names, addrs) ==
    Response("NOERROR", <<>>, GlueRRsets(addrs), <<RRset("NS", 300, names)>>)
SoaOnly == Response("NOERROR", <<>>, <<>>, <<RRset("SOA", 300, <<>>)>>)
Empty == Response("NOERROR", <<>>, <<>>, <<>>)
NxDomain == Response("NXDOMAIN", <<>>, <<>>, <<RRset("SOA", 300, <<>>)>>)
\* a name-does-not-exist response that carries records in every section
NxDomainFull ==
    Response("NXDOMAIN", <<RRset("A", 300, <<S1>>)>>, GlueRRsets(<<S2>>),
             <<RRset("NS", 300, <<NameB>>)>>)

\* an authority section with an SOA and an NS record set, in either order
SoaThenNs ==
    Response("NOERROR", <<>>, <<>>,
             <<RRset("SOA", 300, <<>>), RRset("NS", 300, <<NameB>>)>>)
NsThenSoa ==
    Response("NOERROR", <<>>, <<>>,
             <<RRset("NS", 300, <<NameB>>), RRset("SOA", 300, <<>>)>>)
\* a referral whose additional section holds no A record set
ReferralV6 ==
    Response("NOERROR", <<>>, <<RRset("AAAA", 300, <<S1>>)>>,
             <<RRset("NS", 300, <<NameB>>)>>)

ServerOrders == { <<S1>>, <<S1, S2>>, <<S2, S1>> }
NsNameLists == { <<NameB>>, <<NameB, NameAB>>, <<NameA>> }

Scenarios == {"transport", "chain", "cname", "ns"}

RootPatternsOf(sc) ==
    IF sc = "transport" THEN RootPatterns
    ELSE { [i \in 1..NumRoots |->
                IF i <= k THEN "timeout"
                ELSE IF i <= k + UpRoots THEN "up" ELSE "error"] : k \in {0, 1} }

RootReplies(sc) ==
    CASE sc = "transport" ->
            { Responded(r) : r \in
                { Empty, AnswerA(S1, 300), NxDomain, Referral(<<NameB>>, <<S1>>) } }
      [] sc = "chain" ->
            { Responded(Referral(<<NameB>>, addrs)) : addrs \in ServerOrders }
      [] sc = "cname" ->
            { TimedOut }
            \cup { Responded(r) : r \in
                { AnswerCNAME(t) : t \in Names }
                \cup { AnswerA(S1, 300), NxDomain, Referral(<<NameB>>, <<S1>>),
                       Referral(<<NameB>>, <<S1, S2>>),
                       AnswerCnameThenA(NameB, S1), AnswerAThenCname(NameB, S1) } }
      [] sc = "ns" ->
            { TimedOut }
            \cup { Responded(r) : r \in
                    { Referral(names, <<>>) : names \in NsNameLists }
                    \cup { AnswerA(S1, 300), AnswerA(S2, 60), NxDomain, SoaOnly,
                           Empty, SoaThenNs, NsThenSoa, ReferralV6 } }

ServerReplies(sc) ==
    CASE sc = "transport" ->
            { TimedOut, Failed, Responded(Empty), Responded(AnswerA(S1, 300)) }
      [] sc = "chain" ->
            { TimedOut, Failed }
            \cup { Responded(r) : r \in
                    { AnswerA(S1, 300), AnswerA(S2, 60), Empty, NxDomain,
                      NxDomainFull, SoaOnly,
                      Referral(<<NameB>>, <<S1>>), Referral(<<NameB>>, <<S2>>) } }
      [] sc = "cname" ->
            { TimedOut }
            \cup { Responded(r) : r \in
                    { AnswerCNAME(t) : t \in Names }
                    \cup { AnswerA(S2, 60), NxDomain } }
      [] sc = "ns" ->
            { TimedOut }
            \cup { Responded(r) : r \in { AnswerA(S2, 60), NxDomain, Empty } }

\* the replies a server of the zone may give to a name it was not asked yet;
\* a reply TimedOut of the root zone: every root loses the queries for qname
Alphabet(zone, qname) ==
    IF zone = 0 THEN RootReplies(scenario) ELSE ServerReplies(scenario)

\* the replies server ns can give to a query for qname
Replies(ns, qname) ==
    IF IsRoot(ns) /\ rootStatus[ns] = "timeout" THEN {TimedOut}
    ELSE IF IsRoot(ns) /\ rootStatus[ns] = "error" THEN {Failed}
    ELSE IF fixture[<<Zone(ns), qname>>] # Unset
         THEN {fixture[<<Zone(ns), qname>>]}
         ELSE Alphabet(Zone(ns), qname)

Remember(ns, qname, r) ==
    IF IsRoot(ns) /\ rootStatus[ns] # "up" THEN fixture
    ELSE [fixture EXCEPT ![<<Zone(ns), qname>>] = r]

----------------------------------------------------------------------------
(* Effects of one step on the call stack.                                  *)

Effect(s, r, o) == [stack |-> s, ret |-> r, overflowed |-> o]

\* a variant in which a transport timeout ends the step at once
OuterHandlerTimeoutFatal(g, exc, ns, o) ==
    IF IsA(exc, "Timeout") THEN Effect(Front(stack), Raised("TimeoutError"), o)
    ELSE IF IsA(exc, "NXDomainError") \/ IsA(exc, "NoRecordError")
    THEN Effect(Front(stack), Raised(exc), o)
    ELSE Effect(SetTop(NextServer(g)), NoValue, o)

\* a variant that re-raises NoRecordError only: NXDomainError falls to
\* "except Exception: continue"
OuterHandlerDropsNx(g, exc, ns, o) ==
    IF IsA(exc, "Timeout")
    THEN Effect(SetTop([NextServer(g) EXCEPT !.last_timeout_error = ns]), NoValue, o)
    ELSE IF IsA(exc, "NoRecordError")
    THEN Effect(Front(stack), Raised(exc), o)
    ELSE Effect(SetTop(NextServer(g)), NoValue, o)

\* a variant that re-raises TimeoutError as well
OuterHandlerReraisesTimeout(g, exc, ns, o) ==
    IF IsA(exc, "Timeout")
    THEN Effect(SetTop([NextServer(g) EXCEPT !.last_timeout_error = ns]), NoValue, o)
    ELSE IF IsA(exc, "NXDomainError") \/ IsA(exc, "NoRecordError")
            \/ IsA(exc, "TimeoutError")
    THEN Effect(Front(stack), Raised(exc), o)
    ELSE Effect(SetTop(NextServer(g)), NoValue, o)

\* the except clauses of the for loop (lines 158-169), for exception exc
\* raised while frame g was handling nameserver ns
OuterHandler(g, exc, ns, o) ==
    IF IsA(exc, "Timeout")
    THEN Effect(SetTop([NextServer(g) EXCEPT !.last_timeout_error = ns]), NoValue, o)
    ELSE IF IsA(exc, "NXDomainError") \/ IsA(exc, "NoRecordError")
    THEN Effect(Front(stack), Raised(exc), o)
    ELSE Effect(SetTop(NextServer(g)), NoValue, o)

\* return self._iterative_resolve(...) from inside the try block: the call
\* either starts a new activation or exceeds the recursion limit
TailCall(g, pc, frame, ns) ==
    IF Len(stack) >= RecursionLimit
    THEN OuterHandler(g, "RecursionError", ns, TRUE)
    ELSE Effect(Append(SetTop([g EXCEPT !.pc = pc]), frame), NoValue, overflowed)

\* a variant that chases a CNAME over the nameservers of the calling step
OnResponseChaseSameServers(g, response, ns) ==
    LET d == Classify(response, g.qtype) IN
    CASE d.op = "raise"  -> OuterHandler(g, d.exc, ns, overflowed)
      [] d.op = "return" -> Effect(Front(stack), Returned(response), overflowed)
      [] d.op = "cname"  ->
            TailCall(g, "cname", NewFrame(d.target, g.qtype, g.nameservers), ns)
      [] d.op = "glue"   ->
            TailCall(g, "glue", NewFrame(g.qname, g.qtype, d.servers), ns)
      [] d.op = "ns"     ->
            Effect(SetTop([g EXCEPT !.pc = "ns_loop", !.ns_names = d.names,
                                    !.j = 1, !.next_servers = <<>>,
                                    !.ns_results = <<>>]),
                   NoValue, overflowed)
      [] OTHER           -> Effect(SetTop(NextServer(g)), NoValue, overflowed)

\* what frame g does with the response of nameserver ns
OnResponse(g, response, ns) ==
    LET d == Classify(response, g.qtype) IN
    CASE d.op = "raise"  -> OuterHandler(g, d.exc, ns, overflowed)
      [] d.op = "return" -> Effect(Front(stack), Returned(response), overflowed)
      [] d.op = "cname"  ->
            TailCall(g, "cname", NewFrame(d.target, g.qtype, ROOT_SERVERS), ns)
      [] d.op = "glue"   ->
            TailCall(g, "glue", NewFrame(g.qname, g.qtype, d.servers), ns)
      [] d.op = "ns"     ->
            Effect(SetTop([g EXCEPT !.pc = "ns_loop", !.ns_names = d.names,
                                    !.j = 1, !.next_servers = <<>>,
                                    !.ns_results = <<>>]),
                   NoValue, overflowed)
      [] OTHER           -> Effect(SetTop(NextServer(g)), NoValue, overflowed)

\* what frame g does with the reply of nameserver ns (lines 81-169)
OnReply(g, reply, ns) ==
    CASE reply.status = "timeout" ->
            OuterHandler([g EXCEPT !.seen = Append(@, "timeout")], "Timeout", ns,
                         overflowed)
      [] reply.status = "error"   ->
            OuterHandler([g EXCEPT !.seen = Append(@, "error")], "TransportError",
                         ns, overflowed)
      [] OTHER ->
            OnResponse([g EXCEPT !.successful_responses = @ + 1,
                                 !.seen = Append(@, Classify(reply.response, g.qtype).op)],
                       reply.response, ns)

\* line 151: no NS name of the referral could be resolved
NsUnresolvedError == "NoRecordError"

\* a variant that forgets the timeouts it saw
ExhaustedErrorIgnoresTimeouts(f) ==
    IF f.successful_responses > 0 THEN "NoRecordError" ELSE "DNSResolutionError"

\* a variant that raises the saved timeout without looking at the responses
ExhaustedErrorTimeoutFirst(f) ==
    IF f.last_timeout_error # 0 THEN "TimeoutError"
    ELSE IF f.successful_responses > 0 THEN "NoRecordError"
    ELSE "DNSResolutionError"

\* lines 171-182: every nameserver was tried
ExhaustedError(f) ==
    IF f.last_timeout_error # 0 /\ f.successful_responses = 0 THEN "TimeoutError"
    ELSE IF f.successful_responses > 0 THEN "NoRecordError"
    ELSE "DNSResolutionError"

\* a variant whose first except clause does not name NoRecordError
ResolveOutcomeForgetsNoRecord(r) ==
    IF r.kind = "return" THEN r
    ELSE IF IsA(r.exc, "NXDomainError") \/ IsA(r.exc, "TimeoutError") THEN r
    ELSE Raised("DNSResolutionError")

\* resolve(), lines 65-74: the three specific errors are re-raised, any
\* other exception is replaced by a DNSResolutionError
ResolveOutcome(r) ==
    IF r.kind = "return" THEN r
    ELSE IF IsA(r.exc, "NXDomainError") \/ IsA(r.exc, "TimeoutError")
            \/ IsA(r.exc, "NoRecordError")
    THEN r
    ELSE Raised("DNSResolutionError")

----------------------------------------------------------------------------
(* Actions *)

\* is the innermost activation part of the resolution of an NS name
InSub == \E k \in 1..(Len(stack) - 1) : stack[k].pc = "ns_wait"

\* an event of the history, with the number of queries sent before it
\* and what the nameservers of the innermost activation gave
Event(ev, exc) ==
    [ev |-> ev, exc |-> exc, sub |-> InSub, at |-> Len(sent),
     seen |-> IF stack = <<>> THEN <<>> ELSE Top.seen]

\* the innermost activation is a glue or referral hop, and every nameserver
\* it tried timed out
HopTimedOut ==
    /\ Len(stack) >= 2
    /\ stack[Len(stack) - 1].pc \in {"glue", "referral"}
    /\ Top.seen # <<>>
    /\ \A k \in 1..Len(Top.seen) : Top.seen[k] = "timeout"

Init ==
    /\ scenario \in Scenarios
    /\ domain \in DomainTexts
    /\ run = 1
    /\ phase = "idle"
    /\ stack = <<>>
    /\ ret = NoValue
    /\ result = NoValue
    /\ rootStatus \in RootPatternsOf(scenario)
    /\ fixture = [key \in Zones \X Names |-> Unset]
    /\ sent = <<>>
    /\ history = {}
    /\ overflowed = FALSE
    /\ first = [result |-> NoValue, sent |-> <<>>]

\* resolve(domain), lines 57-68; from_text is called outside the try block
Resolve ==
    /\ phase = "idle"
    /\ LET qname == FromText(Normalize(domain)) IN
       IF qname = BadName
       THEN /\ phase' = "done"
            /\ result' = Raised("EmptyLabel")
            /\ stack' = stack
       ELSE /\ phase' = "running"
            /\ result' = result
            /\ stack' = <<NewFrame(qname, "A", ROOT_SERVERS)>>
    /\ UNCHANGED <<scenario, domain, run, ret, rootStatus, fixture, sent, history,
                   overflowed, first>>

\* one turn of the for loop: query the next nameserver and act on its reply
Query ==
    /\ phase = "running" /\ stack # <<>> /\ ret = NoValue
    /\ Top.pc = "for" /\ Top.i <= Len(Top.nameservers)
    /\ LET f == Top
           ns == f.nameservers[f.i]
       IN \E reply \in Replies(ns, f.qname) :
            LET e == OnReply(f, reply, ns) IN
            /\ fixture' = Remember(ns, f.qname, reply)
            /\ sent' = Append(sent, [qname |-> f.qname, ns |-> ns, reply |-> reply,
                                     depth |-> Len(stack), sub |-> InSub,
                                     untried |-> Len(f.nameservers) - f.i])
            /\ stack' = e.stack
            /\ ret' = e.ret
            /\ overflowed' = e.overflowed
    /\ UNCHANGED <<scenario, domain, run, phase, result, rootStatus, history, first>>

\* the for loop ended without a return or a raise, lines 171-182
Exhausted ==
    /\ phase = "running" /\ stack # <<>> /\ ret = NoValue
    /\ Top.pc = "for" /\ Top.i > Len(Top.nameservers)
    /\ stack' = Front(stack)
    /\ ret' = Raised(ExhaustedError(Top))
    /\ history' = history \cup {Event("exhausted", ExhaustedError(Top))}
                    \cup (IF HopTimedOut THEN {Event("hop_timeout", "TimeoutError")}
                          ELSE {})
    /\ UNCHANGED <<scenario, domain, run, phase, result, rootStatus, fixture, sent,
                   overflowed, first>>

\* for ns_name in ns_names (lines 128-153): resolve the next NS name from
\* the roots, or, after the last one, follow the referral or give up
NsLoop ==
    /\ phase = "running" /\ stack # <<>> /\ ret = NoValue
    /\ Top.pc = "ns_loop"
    /\ LET f == Top
           ns == f.nameservers[f.i]
       IN IF f.j <= Len(f.ns_names)
          THEN IF Len(stack) >= RecursionLimit
               THEN /\ stack' = SetTop([f EXCEPT !.j = @ + 1,
                            !.ns_results = Append(@, Raised("RecursionError"))])
                    /\ ret' = NoValue
                    /\ overflowed' = TRUE
                    /\ history' = history \cup {Event("ns_failed", "RecursionError")}
               ELSE /\ stack' = Append(SetTop([f EXCEPT !.pc = "ns_wait"]),
                                       NewFrame(FromText(f.ns_names[f.j]), "A",
                                                ROOT_SERVERS))
                    /\ ret' = NoValue
                    /\ UNCHANGED <<overflowed, history>>
          ELSE LET e == IF f.next_servers # <<>>
                        THEN TailCall(f, "referral",
                                      NewFrame(f.qname, f.qtype, f.next_servers), ns)
                        ELSE OuterHandler(f, NsUnresolvedError, ns, overflowed)
               IN /\ stack' = e.stack
                  /\ ret' = e.ret
                  /\ overflowed' = e.overflowed
                  /\ history' = IF f.next_servers # <<>> THEN history
                                ELSE history \cup {Event("ns_unresolved", NsUnresolvedError)}
    /\ UNCHANGED <<scenario, domain, run, phase, result, rootStatus, fixture, sent,
                   first>>

\* a variant without the try block around the resolution of an NS name: a
\* failure goes to the except clauses of the step
NsReturnFailFast ==
    /\ phase = "running" /\ stack # <<>> /\ ret # NoValue
    /\ Top.pc = "ns_wait"
    /\ IF ret.kind = "return"
       THEN /\ stack' = SetTop([Top EXCEPT
                    !.pc = "ns_loop",
                    !.j = @ + 1,
                    !.next_servers = @ \o Addresses(ret.response.answer),
                    !.ns_results = Append(@, ret)])
            /\ ret' = NoValue
       ELSE LET e == OuterHandler(Top, ret.exc, Top.nameservers[Top.i], overflowed)
            IN  stack' = e.stack /\ ret' = e.ret
    /\ history' = IF ret.kind = "return" THEN history
                  ELSE history \cup {Event("ns_failed", ret.exc)}
    /\ UNCHANGED <<scenario, domain, run, phase, result, rootStatus, fixture, sent,
                   overflowed, first>>

\* the resolution of one NS name came back (lines 135-145): its addresses
\* are kept, its failure is dropped
NsReturn ==
    /\ phase = "running" /\ stack # <<>> /\ ret # NoValue
    /\ Top.pc = "ns_wait"
    /\ stack' = SetTop([Top EXCEPT
            !.pc = "ns_loop",
            !.j = @ + 1,
            !.next_servers = IF ret.kind = "return"
                             THEN @ \o Addresses(ret.response.answer)
                             ELSE @,
            !.ns_results = Append(@, ret)])
    /\ ret' = NoValue
    /\ history' = IF ret.kind = "return" THEN history
                  ELSE history \cup {Event("ns_failed", ret.exc)}
    /\ UNCHANGED <<scenario, domain, run, phase, result, rootStatus, fixture, sent,
                   overflowed, first>>

\* a call in return position came back (lines 95, 109, 148): its response
\* is returned, its exception goes through the except clauses
TailReturn ==
    /\ phase = "running" /\ stack # <<>> /\ ret # NoValue
    /\ Top.pc \in {"cname", "glue", "referral"}
    /\ LET f == Top
           e == IF ret.kind = "return"
                THEN Effect(Front(stack), ret, overflowed)
                ELSE OuterHandler(f, ret.exc, f.nameservers[f.i], overflowed)
       IN /\ stack' = e.stack
          /\ ret' = e.ret
    /\ UNCHANGED <<scenario, domain, run, phase, result, rootStatus, fixture, sent,
                   history, overflowed, first>>

\* resolve() returns or raises, lines 65-74
Finish ==
    /\ phase = "running" /\ stack = <<>> /\ ret # NoValue
    /\ phase' = "done"
    /\ result' = ResolveOutcome(ret)
    /\ ret' = NoValue
    /\ UNCHANGED <<scenario, domain, run, stack, rootStatus, fixture, sent, history,
                   overflowed, first>>

Next ==
    \/ Resolve
    \/ Query
    \/ Exhausted
    \/ NsLoop
    \/ NsReturn
    \/ TailReturn
    \/ Finish

Spec == Init /\ [][Next]_vars

----------------------------------------------------------------------------
(* A second call of resolve() against the same servers, for the same name  *)
(* written the other way: with the trailing dot if the first call had      *)
(* none, without it otherwise.                                             *)

ToggleDot(text) ==
    IF Len(text) > 0 /\ text[Len(text)] = "."
    THEN SubSeq(text, 1, Len(text) - 1)
    ELSE text \o <<".">>

Again ==
    /\ phase = "done" /\ run = 1
    /\ run' = 2
    /\ first' = [result |-> result, sent |-> sent]
    /\ domain' = ToggleDot(domain)
    /\ phase' = "idle"
    /\ result' = NoValue
    /\ sent' = <<>>
    /\ history' = {}
    /\ overflowed' = FALSE
    /\ UNCHANGED <<scenario, stack, ret, rootStatus, fixture>>

NextTwice == Next \/ Again

SpecTwice == Init /\ [][NextTwice]_vars

----------------------------------------------------------------------------
(* Properties *)

Done == phase = "done"

\* the name resolve() asks for
TopName == FromText(Normalize(domain))

IsDown(reply) == reply.status \in {"timeout", "error"}
IsNx(reply) == reply.status = "response" /\ reply.response.rcode = "NXDOMAIN"
OpOf(reply) ==
    IF reply.status = "response" THEN Classify(reply.response, "A").op ELSE "none"
IsAnswer(reply) == OpOf(reply) = "return"
IsGlueReferral(reply) == OpOf(reply) = "glue"
GlueSet(reply) == Addresses(reply.response.additional)
SeqRange(q) == { q[k] : k \in 1..Len(q) }

\* A fixture in which the delegation chain of name ends in an answer: the
\* roots refer with glue; every server of a referral set is down, refers
\* further with glue, or holds the one address record of the name; every
\* referral set has a server that is not down; no referral loops.
ChainFixture(name) ==
    /\ IsGlueReferral(fixture[<<0, name>>])
    /\ \A s \in {S1, S2} :
          LET r == fixture[<<s, name>>] IN
          r = Unset \/ IsDown(r) \/ IsGlueReferral(r) \/ IsAnswer(r)
    /\ \A s, t \in {S1, S2} :
          IsAnswer(fixture[<<s, name>>]) /\ IsAnswer(fixture[<<t, name>>])
              => fixture[<<s, name>>] = fixture[<<t, name>>]
    /\ \A z \in Zones :
          IsGlueReferral(fixture[<<z, name>>]) =>
              \E s \in SeqRange(GlueSet(fixture[<<z, name>>])) :
                  ~IsDown(fixture[<<Zone(s), name>>])
    /\ ~overflowed

\* C1: when the delegation chain of N (glue referrals from the roots down to
\* a server that answers) ends in an address record, resolve(N) returns the
\* response that holds it, whatever the order of the servers in the
\* referral sets: the value returned is fixed by the fixture alone.
C1_ChainResolves ==
    (Done /\ ChainFixture(TopName)) =>
        /\ result.kind = "return"
        /\ \E s \in {S1, S2} :
              /\ IsAnswer(fixture[<<s, TopName>>])
              /\ fixture[<<s, TopName>>] = Responded(result.response)

C1_Witness ==
    /\ Done /\ ChainFixture(TopName)
    /\ fixture[<<0, TopName>>] = Responded(Referral(<<NameB>>, <<S2, S1>>))
    /\ fixture[<<S2, TopName>>] = TimedOut
    /\ result = Returned(AnswerA(S1, 300))

\* C2 (as amended): a name-does-not-exist response received by a step that
\* is not part of the resolution of an NS name makes resolve(N) fail with
\* NXDomainError.
C2_NxPropagatesOutsideNs ==
    (Done /\ \E k \in 1..Len(sent) : IsNx(sent[k].reply) /\ ~sent[k].sub)
        => result = Raised("NXDomainError")

C2_Witness ==
    /\ Done
    /\ \E k \in 1..Len(sent) :
          IsNx(sent[k].reply) /\ ~sent[k].sub /\ sent[k].depth >= 3
    /\ result = Raised("NXDomainError")

\* C2 as stated: a name-does-not-exist response at any recursion depth,
\* the resolution of an NS name included, makes resolve(N) fail with
\* NXDomainError.
C2_NxPropagatesAnywhere ==
    (Done /\ \E k \in 1..Len(sent) : IsNx(sent[k].reply))
        => result = Raised("NXDomainError")

\* C3: the step that receives a name-does-not-exist response ends at once
\* with NXDomainError, whatever else the response carries: its activation
\* is gone, so none of its remaining servers is queried.
C3_NxEndsStep ==
    [][ (Len(sent') = Len(sent) + 1 /\ IsNx(sent'[Len(sent')].reply))
            => (stack' = Front(stack) /\ ret' = Raised("NXDomainError")) ]_vars

C3_Witness ==
    /\ sent # <<>>
    /\ sent[Len(sent)].reply = Responded(NxDomainFull)
    /\ sent[Len(sent)].untried > 0
    /\ ret = Raised("NXDomainError")

\* the reply of the server that speaks for name: the root zone's, or that
\* of S1 when the roots refer to S1 alone
Auth(name) ==
    IF IsGlueReferral(fixture[<<0, name>>]) /\ GlueSet(fixture[<<0, name>>]) = <<S1>>
    THEN fixture[<<S1, name>>]
    ELSE fixture[<<0, name>>]

CnameTo(name, target) == Auth(name) = Responded(AnswerCNAME(target))

\* C4: a chain of one or two CNAME records that ends in a name with an
\* address record is followed to its end (every target is looked up, from
\* the roots), and resolve() returns the response holding that record.
C4_CnameChain ==
    (Done /\ ~overflowed) =>
        \A b, c \in Names :
            /\ CnameTo(TopName, b) => Auth(b) # Unset
            /\ (CnameTo(TopName, b) /\ CnameTo(b, c)) => Auth(c) # Unset
            /\ (CnameTo(TopName, b) /\ IsAnswer(Auth(b)))
                  => result = Returned(Auth(b).response)
            /\ (CnameTo(TopName, b) /\ CnameTo(b, c) /\ IsAnswer(Auth(c)))
                  => result = Returned(Auth(c).response)

C4_Witness ==
    /\ Done /\ ~overflowed
    /\ \E b, c \in Names :
          /\ CnameTo(TopName, b) /\ CnameTo(b, c) /\ IsAnswer(Auth(c))
          /\ result = Returned(Auth(c).response)

\* C5 as stated: exceeding the bound on the recursion depth yields a
\* terminal failure.  The code sets no bound; the only one is the
\* interpreter's, and the RecursionError it raises is caught by "except
\* Exception: continue" like any other error.
C5_OverflowIsFailure ==
    (Done /\ overflowed) => result.kind = "raise"

\* what root server i replies to a query for name
RootReply(i, name) ==
    IF rootStatus[i] = "timeout" THEN TimedOut
    ELSE IF rootStatus[i] = "error" THEN Failed
    ELSE fixture[<<0, name>>]

AllRootsTimeOut == \A i \in 1..NumRoots : RootReply(i, TopName) = TimedOut

\* C6: when every root server times out on the query for N, resolve(N)
\* fails with TimeoutError after one query to each of the 13 root servers,
\* in the order of the list.
C6_AllRootsTimeOut ==
    (Done /\ AllRootsTimeOut) =>
        /\ result = Raised("TimeoutError")
        /\ Len(sent) = NumRoots
        /\ \A k \in 1..Len(sent) :
              sent[k].ns = ROOT_SERVERS[k] /\ sent[k].qname = TopName

C6_Witness ==
    /\ Done /\ AllRootsTimeOut
    /\ result = Raised("TimeoutError")
    /\ Len(sent) = NumRoots

\* a step of the resolution of N itself found NS names and could resolve
\* none of them
NsUnresolved == \E e \in history : e.ev = "ns_unresolved" /\ ~e.sub

\* C7: when a step of the resolution of N follows an NS referral without
\* glue and the resolution of every NS name fails, whatever the failures,
\* resolve(N) fails with NoRecordError.
C7_UnresolvedNsIsNoRecord ==
    (Done /\ NsUnresolved) => result = Raised("NoRecordError")

C7_Witness ==
    /\ Done /\ NsUnresolved
    /\ \E e \in history : e.ev = "ns_failed" /\ e.exc = "TimeoutError" /\ ~e.sub
    /\ result = Raised("NoRecordError")

\* no answer, no glue address, and an authority section of SOA record sets
SoaOnlyShape(reply) ==
    /\ reply.status = "response"
    /\ reply.response.answer = <<>>
    /\ Addresses(reply.response.additional) = <<>>
    /\ reply.response.authority # <<>>
    /\ \A k \in 1..Len(reply.response.authority) :
          reply.response.authority[k].rdtype = "SOA"

\* C8 (as amended): a response to a step of the resolution of N whose
\* status is not name-does-not-exist and that holds no answer, no glue
\* address and only SOA in its authority section makes resolve(N) fail with
\* NoRecordError, and no query is sent after it.
C8_SoaOnlyIsNoRecord ==
    Done =>
        \A k \in 1..Len(sent) :
            (~sent[k].sub /\ SoaOnlyShape(sent[k].reply) /\ ~IsNx(sent[k].reply))
                => (result = Raised("NoRecordError") /\ k = Len(sent))

C8_Witness ==
    /\ Done
    /\ \E k \in 1..Len(sent) :
          /\ ~sent[k].sub /\ SoaOnlyShape(sent[k].reply) /\ ~IsNx(sent[k].reply)
          /\ sent[k].untried > 0
    /\ result = Raised("NoRecordError")

\* C8 as stated: whatever its status code, a response with no answer, no
\* glue address and only SOA in its authority section makes resolve(N) fail
\* with NoRecordError.
C8_SoaOnlyAnyStatus ==
    Done =>
        \A k \in 1..Len(sent) :
            (~sent[k].sub /\ SoaOnlyShape(sent[k].reply))
                => (result = Raised("NoRecordError") /\ k = Len(sent))

FailureKinds ==
    {"NXDomainError", "TimeoutError", "NoRecordError", "DNSResolutionError"}

C10_TrailingDot ==
    (run = 2 /\ Done) => (result = first.result /\ sent = first.sent)

C10_Witness ==
    /\ run = 2 /\ Done
    /\ result.kind = "return"
    /\ Len(sent) >= 3
    /\ sent = first.sent

\* a query was just sent and answered by a response whose status is not
\* name-does-not-exist
GotResponse ==
    /\ Len(sent') = Len(sent) + 1
    /\ sent'[Len(sent')].reply.status = "response"
    /\ ~IsNx(sent'[Len(sent')].reply)

HasType(section, rdtype) == \E k \in 1..Len(section) : section[k].rdtype = rdtype

\* C11 as stated: a response whose answer section holds a record set of the
\* requested type ends the step with that response at once, also when the
\* answer section holds a CNAME record set, before or after it.  The code
\* scans the answer section in order and chases a CNAME it meets first.
C11_AnswerBeforeCname ==
    [][ (GotResponse /\ HasType(sent'[Len(sent')].reply.response.answer, Top.qtype))
            => /\ stack' = Front(stack)
               /\ ret' = Returned(sent'[Len(sent')].reply.response) ]_vars

\* the call made for a CNAME target came back to the step that made it
ChaseCameBack == stack # <<>> /\ ret # NoValue /\ Top.pc = "cname"

\* C12 as stated: whatever the resolution of a CNAME target returns or
\* raises is what the step that chased it returns or raises, and the step
\* is over.  The except clauses of the step re-raise NXDomainError and
\* NoRecordError only: a TimeoutError or DNSResolutionError of the chase
\* falls to "except Exception: continue".
C12_ChaseOutcomeIsFinal ==
    [][ ChaseCameBack => (stack' = Front(stack) /\ ret' = ret) ]_vars

\* a glue or referral hop of the resolution of N itself was tried on every
\* one of its servers and all of them timed out
HopTimeouts == { e \in history : e.ev = "hop_timeout" /\ ~e.sub }

\* C13 as stated: when every server of a step reached by a glue or referral
\* hop times out, resolve(N) fails with TimeoutError and no query is sent
\* after the last of these timeouts.  The enclosing step catches the
\* TimeoutError of the hop with "except Exception: continue" and goes on
\* with its own next server.
C13_HopTimeoutIsFinal ==
    Done => \A e \in HopTimeouts :
                result = Raised("TimeoutError") /\ Len(sent) = e.at

\* the steps that tried every one of their servers without a return or a
\* raise
Exhaustions == { e \in history : e.ev = "exhausted" }

Responses(seen) == { k \in 1..Len(seen) : seen[k] \notin {"timeout", "error"} }
Timeouts(seen) == { k \in 1..Len(seen) : seen[k] = "timeout" }

\* C14: a step that has tried all its servers fails with NoRecordError if
\* at least one of them returned a response, else with TimeoutError if at
\* least one timed out, else with DNSResolutionError.
C14_ExhaustionKind ==
    \A e \in Exhaustions :
        e.exc = IF Responses(e.seen) # {} THEN "NoRecordError"
                ELSE IF Timeouts(e.seen) # {} THEN "TimeoutError"
                ELSE "DNSResolutionError"

C14_Witness ==
    \E e \in Exhaustions :
        /\ Responses(e.seen) # {} /\ Timeouts(e.seen) # {}
        /\ e.seen[1] = "timeout"
        /\ e.exc = "NoRecordError"
        /\ ret = Raised("NoRecordError")

\* the response just received has no answer and no glue address, and its
\* authority section holds both an SOA and an NS record set
SoaAndNs ==
    /\ GotResponse
    /\ LET r == sent'[Len(sent')].reply.response IN
       /\ r.answer = <<>>
       /\ Addresses(r.additional) = <<>>
       /\ HasType(r.authority, "SOA") /\ HasType(r.authority, "NS")

\* C15 as stated: a response whose authority section holds an SOA and an NS
\* record set, in either order, makes the step follow the NS referral: it
\* goes on to resolve the NS names.  The code raises NoRecordError at the
\* SOA record set when no NS record set came before it in the section.
C15_NsBeatsSoa ==
    [][ SoaAndNs => /\ Len(stack') = Len(stack)
                    /\ stack'[Len(stack')].pc = "ns_loop" ]_vars

\* the activations started for a CNAME target or for an NS name
Restarts ==
    { k \in 2..Len(stack) : stack[k - 1].pc \in {"cname", "ns_wait"} }

\* C16: every step started for a CNAME target or for an NS name, and the
\* first step of every call of resolve(), goes over the 13 root servers in
\* the order of the list, whatever servers the calling step was going over.
C16_RestartFromRoots ==
    /\ Len(ROOT_SERVERS) = NumRoots
    /\ \A k \in Restarts : stack[k].nameservers = ROOT_SERVERS
    /\ stack # <<>> => stack[1].nameservers = ROOT_SERVERS
    /\ \A k \in 1..Len(sent) :
          sent[k].depth = 1 => sent[k].ns = ROOT_SERVERS[NumRoots - sent[k].untried]

C16_Witness ==
    /\ run = 2
    /\ \E k \in Restarts :
          /\ stack[k - 1].pc = "cname"
          /\ stack[k - 1].nameservers # ROOT_SERVERS
          /\ stack[k].nameservers = ROOT_SERVERS
          /\ stack[k].i > 1

\* the NS names of a referral have all been tried and none gave an address
NoAddressForReferral ==
    /\ stack # <<>> /\ ret = NoValue /\ Top.pc = "ns_loop"
    /\ Top.j > Len(Top.ns_names)
    /\ Top.next_servers = <<>>

\* C17: no activation goes over an empty list of nameservers: a glue hop
\* and a referral hop start with at least one address, and a referral whose
\* NS names gave no address raises NoRecordError instead of starting a hop.
C17_ServerSetNonEmpty ==
    /\ [](\A k \in 1..Len(stack) : stack[k].nameservers # <<>>)
    /\ [](\A k \in 1..(Len(stack) - 1) :
            stack[k].pc = "referral" =>
                stack[k + 1].nameservers = stack[k].next_servers)
    /\ [][ NoAddressForReferral
             => (stack' = Front(stack) /\ ret' = Raised("NoRecordError")) ]_vars

C17_Witness ==
    /\ fixture[<<0, TopName>>] = Responded(ReferralV6)
    /\ stack = <<>>
    /\ ret = Raised("NoRecordError")
    /\ \E e \in history : e.ev = "ns_unresolved" /\ ~e.sub /\ e.at = Len(sent)

\* a query was just sent by the innermost activation
QuerySent == Len(sent') = Len(sent) + 1

\* C18 as stated: a step queries its servers one at a time in the order of
\* its list; it queries a server only after every server before it timed
\* out, failed with a transport error or returned a response with nothing
\* to act on; a timeout or a transport error does not end the step while
\* servers are left.  The code also goes on to the next server after a
\* server's response was acted on and the call made for it failed with
\* TimeoutError or DNSResolutionError (stated here for the calls that stay
\* within the recursion limit).
C18_NextOnlyAfterNothing ==
    [][ (QuerySent /\ ~overflowed') =>
          /\ sent'[Len(sent')].ns = Top.nameservers[Len(Top.seen) + 1]
          /\ \A k \in 1..Len(Top.seen) : Top.seen[k] \in {"timeout", "error", "next"}
          /\ (IsDown(sent'[Len(sent')].reply) /\ sent'[Len(sent')].untried > 0)
                => /\ Len(stack') = Len(stack)
                   /\ stack'[Len(stack')].pc = "for"
                   /\ stack'[Len(stack')].i = Top.i + 1 ]_vars

\* the addresses of the A record sets that the resolutions of the NS names
\* returned, in the order of the NS names
RECURSIVE Aggregate(_)
Aggregate(results) ==
    IF results = <<>> THEN <<>>
    ELSE (IF Head(results).kind = "return"
          THEN Addresses(Head(results).response.answer) ELSE <<>>)
         \o Aggregate(Tail(results))

\* the resolution of an NS name came back with a failure
NsNameFailed == stack # <<>> /\ Top.pc = "ns_wait" /\ ret.kind = "raise"

\* the last NS name of a referral has been tried and the call for the hop
\* stays within the recursion limit
NsLoopOver ==
    /\ stack # <<>> /\ ret = NoValue /\ Top.pc = "ns_loop"
    /\ Top.j > Len(Top.ns_names)
    /\ Len(stack) < RecursionLimit

\* C19: in a referral without glue the NS names are resolved one after the
\* other in the order of the referral; a failure of one of them, whatever
\* its kind, leaves the step running with the next NS name; when at least
\* one gave an address, the step calls itself for the same name and type
\* over all the addresses obtained, in the order of the NS names.
C19_NsFailureIsolated ==
    /\ [](\A k \in 1..Len(stack) :
            stack[k].pc \in {"ns_loop", "ns_wait"} =>
                /\ Len(stack[k].ns_results) = stack[k].j - 1
                /\ stack[k].pc = "ns_wait" =>
                      /\ k < Len(stack) \/ ret # NoValue
                      /\ k < Len(stack) =>
                            /\ stack[k + 1].qname = FromText(stack[k].ns_names[stack[k].j])
                            /\ stack[k + 1].qtype = "A")
    /\ [][ NsNameFailed =>
             /\ Len(stack') = Len(stack)
             /\ stack'[Len(stack')].pc = "ns_loop"
             /\ stack'[Len(stack')].j = Top.j + 1
             /\ ret' = NoValue ]_vars
    /\ [][ (NsLoopOver /\ Aggregate(Top.ns_results) # <<>>) =>
             /\ Len(stack') = Len(stack) + 1
             /\ Len(Top.ns_results) = Len(Top.ns_names)
             /\ stack'[Len(stack')] =
                    NewFrame(Top.qname, Top.qtype, Aggregate(Top.ns_results)) ]_vars

C19_Witness ==
    /\ Len(stack) >= 2
    /\ LET f == stack[Len(stack) - 1] IN
       /\ f.pc = "referral"
       /\ Len(f.ns_results) = 2
       /\ f.ns_results[1] = Raised("TimeoutError")
       /\ f.ns_results[2].kind = "return"
       /\ Top.nameservers = Aggregate(f.ns_results)
       /\ Top.qname = f.qname

\* C20: resolve(N) raises TimeoutError only when its first step, the one
\* over the root servers for N, got no response from any of them and a
\* timeout from at least one: every query of the call is then one of that
\* step, so no step below it ever ran, and a TimeoutError raised by a step
\* below the first is never what resolve(N) raises.
C20_TimeoutOnlyFromRoots ==
    (Done /\ result = Raised("TimeoutError")) =>
        /\ Len(sent) = NumRoots
        /\ \A k \in 1..Len(sent) :
              /\ sent[k].depth = 1
              /\ sent[k].qname = TopName
              /\ sent[k].ns = ROOT_SERVERS[k]
              /\ IsDown(sent[k].reply)
        /\ \E k \in 1..Len(sent) : sent[k].reply = TimedOut
        /\ \A e \in Exhaustions : e.exc = "TimeoutError" /\ e.at = NumRoots

C20_Witness ==
    /\ Done /\ result = Raised("TimeoutError")
    /\ \E k \in 1..Len(sent) : sent[k].reply = TimedOut
    /\ \E k \in 1..Len(sent) : sent[k].reply = Failed

====
